---- MODULE Spec2Model ----
(***************************************************************************)
(* The resilient remote-invocation layer of RaAI-2.0:                      *)
(*   - ApiClient (frontend/lib/api.ts): credential, Transport (request)    *)
(*     and the ten capability methods with their local substitutes;        *)
(*   - callGeminiWithRetry and the POST /api/rewrite handler               *)
(*     (frontend/app/api/rewrite/route.ts).                                *)
(* SpecApi explores the ApiClient, SpecRewrite the rewrite route.          *)
(***************************************************************************)
EXTENDS Integers, Sequences, FiniteSets, TLC

VARIABLES
    isBrowser,   \* typeof window !== 'undefined'
    token,       \* ApiClient.token (in-memory credential), Null when absent
    storage,     \* localStorage['auth_token'], Null when the key is absent
    lastSet,     \* history: the token most recently set and not removed since
    pending,     \* the request() call suspended at `await fetch`, or NoRequest
                 \* (with the request() and fetch calls made so far)
    result,      \* how the last capability call settled, or NoResult
    rpc,         \* position of callGeminiWithRetry: idle/fetching/sleeping/done
    caller,      \* who invoked callGeminiWithRetry: "POST" or "direct"
    maxRetries,  \* parameter maxRetries of the running invocation
    modelIndex,  \* loop variable modelIndex (0-based)
    attempt,     \* loop variable attempt (1-based)
    lastError,   \* local lastError, Undefined until assigned
    calls,       \* history: one entry per provider call, in order
    outstanding, \* history: provider calls issued and not yet answered
    answer,      \* history: what the provider did on the latest answered call
    outcome,     \* how callGeminiWithRetry ended: returned text / thrown error
    response,    \* the NextResponse of the POST handler, or NoResponse
    posted,      \* history: the body of the POST request being handled
    second       \* a second invocation of callGeminiWithRetry running at the
                 \* same time: its position, its locals and its calls

apiVars == <<isBrowser, token, storage, lastSet, pending, result>>
retryVars == <<rpc, caller, maxRetries, modelIndex, attempt, lastError,
               calls, outstanding, answer, outcome, response, posted, second>>
vars == <<apiVars, retryVars>>

-----------------------------------------------------------------------------
(* Values shared by both halves.                                           *)

Null == "null"
Undefined == [type |-> "undefined"]

\* The credentials a login flow may hand over; setToken accepts any string.
Tokens == {"", "tokA", "tokB"}
\* what an earlier visit may have left under 'auth_token'
StoredTokens == {"tokA"}

-----------------------------------------------------------------------------
(* ApiClient: Transport.                                                   *)

NoRequest == [cap |-> "none"]
NoResult == [cap |-> "none"]
NoHeader == [scheme |-> "none", credentials |-> ""]

\* `Bearer ${this.token}`
Bearer(t) == [scheme |-> "Bearer", credentials |-> t]

ConnectMessage ==
    "Cannot connect to backend server. Please check if the backend is running."

\* `API request failed: ${response.status}`
StatusMessage(status) ==
    CASE status = 401 -> "API request failed: 401"
      [] status = 404 -> "API request failed: 404"
      [] status = 500 -> "API request failed: 500"

\* What fetch + response.json() can do for one call.
\*   kind "response": fetch resolved with a status and a body; the body is
\*        either unparsable or a parsed JSON value;
\*   kind "reject": fetch rejected with the given error.
Unparsable == [json |-> FALSE]
Json(v) == [json |-> TRUE, value |-> v]

FailedToFetch == [name |-> "TypeError", message |-> "Failed to fetch"]
LoadFailed == [name |-> "TypeError", message |-> "Load failed"]
TimeoutError ==
    [name |-> "TimeoutError", message |-> "The operation was aborted due to timeout"]
JsonSyntaxError ==
    [name |-> "SyntaxError", message |-> "Unexpected token < in JSON at position 0"]

\* a JSON string
Str(v) == [type |-> "string", val |-> v]

\* the detail of a validation failure: an array with one error object
ValidationErrors == [type |-> "array", val |-> <<[msg |-> "field required"]>>]

\* Error bodies of a non-success response: with a detail, with an empty
\* detail, with a detail that is not a string, without one.
ErrorBodies ==
    { [detail |-> Str("Not authenticated")], [detail |-> Str("")],
      [detail |-> ValidationErrors], [message |-> Str("oops")] }

\* the left operand of `errorData.detail || ...` is taken when it is truthy:
\* every value but undefined and the empty string
TruthyValue(v) == v # Undefined /\ ~(v.type = "string" /\ v.val = "")

\* new Error(v) converts v to a string: a string is itself, an array of one
\* object is '[object Object]'
MessageOf(v) == IF v.type = "string" THEN v.val ELSE "[object Object]"

\* `({})`, the value `response.json().catch(() => ({}))` falls back to.
EmptyObject == [k \in {} |-> ""]

\* response.ok
Ok(status) == status \in 200..299

Return(v) == [ok |-> TRUE, value |-> v]
Throw(e) == [ok |-> FALSE, error |-> e]

\* The catch block of request(): only a TypeError whose message is exactly
\* 'Failed to fetch' is replaced; every other error is rethrown as it is.
Reclassify(error) ==
    IF error.name = "TypeError" /\ error.message = "Failed to fetch"
    THEN [name |-> "Error", message |-> ConnectMessage]
    ELSE error

\* request() reporting the status whatever the error body says
requestIgnoresDetail(o) ==
    IF o.kind = "reject" THEN Throw(Reclassify(o.error))
    ELSE IF ~Ok(o.status)
    THEN Throw([name |-> "Error", message |-> StatusMessage(o.status)])
    ELSE IF o.body.json THEN Return(o.body.value)
    ELSE Throw(Reclassify(JsonSyntaxError))

\* request(), from `await fetch` on: o is what fetch did.
request(o) ==
    IF o.kind = "reject" THEN Throw(Reclassify(o.error))
    ELSE IF ~Ok(o.status)
    THEN LET errorData == IF o.body.json THEN o.body.value ELSE EmptyObject
             detail == IF "detail" \in DOMAIN errorData
                       THEN errorData.detail ELSE Undefined
             message == IF TruthyValue(detail) THEN MessageOf(detail)
                        ELSE StatusMessage(o.status)
         IN  Throw(Reclassify([name |-> "Error", message |-> message]))
    ELSE IF o.body.json THEN Return(o.body.value)
    ELSE Throw(Reclassify(JsonSyntaxError))

-----------------------------------------------------------------------------
(* ApiClient: inputs of the capabilities.                                  *)

MaxResponses == 1   \* answered questions in one check-in submission
MaxWords == 1       \* words in one journal text

NoInput == [none |-> TRUE]

\* ids of the check-in questions (the fallback list of getCheckInQuestions)
QuestionIds == <<"mood", "stress", "energy", "connection", "motivation">>
BaselineIds == <<"SA1", "SR1", "M1", "E1", "SS1">>

Scale == 1..5
UserIds == {"u1", "u2"}

\* checkInData of Today.handleCompletion: user_id, date and one number per
\* answered question.
CheckInOn(user, date, answers) ==
    [k \in {"user_id", "date"} \cup DOMAIN answers |->
        IF k = "user_id" THEN user
        ELSE IF k = "date" THEN date
        ELSE answers[k]]

\* new Date().toISOString().split("T")[0]
Dates == {"2025-01-01", "2025-01-02"}

CheckIn(user, answers) == CheckInOn(user, "2025-01-01", answers)

CheckInData ==
    UNION { { CheckIn(u, a) : u \in UserIds,
                              a \in [{QuestionIds[i] : i \in 1..n} -> Scale] }
            : n \in 1..MaxResponses }

\* A text is the sequence of its whitespace-separated words.
Vocabulary == {"happy", "Sadly", "angry", "worried", "the", "great"}
Texts == UNION { [1..n -> Vocabulary] : n \in 0..MaxWords }

\* the lexicon keywords that occur in word.toLowerCase()
KeywordsIn(word) ==
    CASE word = "happy"   -> {"happy"}
      [] word = "Sadly"   -> {"sad"}
      [] word = "angry"   -> {"angry"}
      [] word = "worried" -> {"worried"}
      [] word = "great"   -> {"great"}
      [] OTHER            -> {}

\* lowerText.includes(keyword): a keyword has no whitespace, so it occurs in
\* the text exactly when it occurs in one of its words.
Includes(text, keyword) ==
    \E i \in 1..Len(text) : keyword \in KeywordsIn(text[i])

\* text.toLowerCase().split(/\s+/): the empty text yields one empty token.
Split(text) == IF text = << >> THEN <<"">> ELSE text

-----------------------------------------------------------------------------
(* ApiClient: the local substitutes.                                       *)

\* values.reduce((a, b) => a + b, 0) over the fields named by keys
RECURSIVE SumOver(_, _)
SumOver(f, keys) ==
    IF keys = {} THEN 0
    ELSE LET k == CHOOSE x \in keys : TRUE
         IN  f[k] + SumOver(f, keys \ {k})

\* { ...obj }: a new object with the fields of obj
Spread(obj) == [k \in DOMAIN obj |-> obj[k]]

\* delete obj[key]
Delete(obj, key) == [k \in DOMAIN obj \ {key} |-> obj[k]]

\* the catch block of submitCheckIn with `const responses = data`: the two
\* names denote one object
checkInObjectsAliased(data) ==
    LET responses == Delete(Delete(data, "user_id"), "date")
    IN  [data |-> responses, responses |-> responses]

\* The objects the catch block of submitCheckIn leaves behind: the caller's
\* data and the local copy responses, after the two deletes.
checkInObjects(data) ==
    LET copied == [data |-> data, responses |-> Spread(data)]
        first == [copied EXCEPT !.responses = Delete(@, "user_id")]
    IN  [first EXCEPT !.responses = Delete(@, "date")]

\* the catch block of submitCheckIn deleting the stress answer as well
checkInFallbackDropsStress(data) ==
    LET responses == [k \in DOMAIN data \ {"user_id", "date", "stress"} |-> data[k]]
        n == Cardinality(DOMAIN responses)
        s == SumOver(responses, DOMAIN responses)
    IN  [mood_index |-> (5000 * (s - n) + n) \div (2 * n), offline |-> TRUE]

\* the catch block of submitCheckIn with Math.floor in place of Math.round
checkInFallbackTruncates(data) ==
    LET responses == [k \in DOMAIN data \ {"user_id", "date"} |-> data[k]]
        n == Cardinality(DOMAIN responses)
        s == SumOver(responses, DOMAIN responses)
    IN  [mood_index |-> (2500 * (s - n)) \div n, offline |-> TRUE]

\* The catch block of submitCheckIn.  mood_index is kept in hundredths:
\* Math.round(moodIndex * 100) is the integer computed here and the final
\* `/ 100` only places the decimal point.  With n values of sum s,
\* moodIndex * 100 = 2500 * (s - n) / n, and Math.round(x) = floor(x + 1/2).
checkInFallback(data) ==
    LET responses == [k \in DOMAIN data \ {"user_id", "date"} |-> data[k]]
        n == Cardinality(DOMAIN responses)
        s == SumOver(responses, DOMAIN responses)
    IN  [mood_index |-> (5000 * (s - n) + n) \div (2 * n), offline |-> TRUE]

\* analyzeFallbackEmotions with the four tests chained by else-if
analyzeFallbackEmotionsFirstMatch(text) ==
    IF Includes(text, "happy") \/ Includes(text, "joy") \/ Includes(text, "good")
    THEN <<[label |-> "Joy", score |-> "0.7"]>>
    ELSE IF Includes(text, "sad") \/ Includes(text, "down")
            \/ Includes(text, "upset")
    THEN <<[label |-> "Sadness", score |-> "0.6"]>>
    ELSE IF Includes(text, "angry") \/ Includes(text, "mad")
            \/ Includes(text, "frustrated")
    THEN <<[label |-> "Anger", score |-> "0.6"]>>
    ELSE IF Includes(text, "worried") \/ Includes(text, "anxious")
            \/ Includes(text, "nervous")
    THEN <<[label |-> "Anxiety", score |-> "0.6"]>>
    ELSE <<[label |-> "Reflection", score |-> "0.5"]>>

\* analyzeFallbackEmotions
analyzeFallbackEmotions(text) ==
    LET joy == IF Includes(text, "happy") \/ Includes(text, "joy")
                  \/ Includes(text, "good")
               THEN <<[label |-> "Joy", score |-> "0.7"]>> ELSE << >>
        sadness == IF Includes(text, "sad") \/ Includes(text, "down")
                      \/ Includes(text, "upset")
                   THEN <<[label |-> "Sadness", score |-> "0.6"]>> ELSE << >>
        anger == IF Includes(text, "angry") \/ Includes(text, "mad")
                    \/ Includes(text, "frustrated")
                 THEN <<[label |-> "Anger", score |-> "0.6"]>> ELSE << >>
        anxiety == IF Includes(text, "worried") \/ Includes(text, "anxious")
                      \/ Includes(text, "nervous")
                   THEN <<[label |-> "Anxiety", score |-> "0.6"]>> ELSE << >>
        emotions == joy \o sadness \o anger \o anxiety
    IN  IF Len(emotions) = 0
        THEN <<[label |-> "Reflection", score |-> "0.5"]>>
        ELSE emotions

positiveWords ==
    {"good", "great", "happy", "love", "amazing", "wonderful", "excellent",
     "fantastic"}
negativeWords ==
    {"bad", "terrible", "hate", "awful", "horrible", "worst", "sad", "angry"}

\* the forEach of calculateFallbackSentiment over words[i..]
RECURSIVE WordScore(_, _)
WordScore(words, i) ==
    IF i > Len(words) THEN 0
    ELSE (IF KeywordsIn(words[i]) \cap positiveWords # {} THEN 1 ELSE 0)
         - (IF KeywordsIn(words[i]) \cap negativeWords # {} THEN 1 ELSE 0)
         + WordScore(words, i + 1)

Max(a, b) == IF a >= b THEN a ELSE b
Min(a, b) == IF a <= b THEN a ELSE b

\* calculateFallbackSentiment without the final clamp
calculateFallbackSentimentUnclamped(text) ==
    LET words == Split(text)
    IN  [num |-> 10 * WordScore(words, 1), den |-> Max(Len(words), 10)]

\* calculateFallbackSentiment.  The result is the fraction num / den:
\* score / max(len / 10, 1) = 10 * score / max(len, 10), clamped to [-1, 1].
calculateFallbackSentiment(text) ==
    LET words == Split(text)
        score == WordScore(words, 1)
        den == Max(Len(words), 10)
    IN  [num |-> Max(-den, Min(den, 10 * score)), den |-> den]

fallbackCheckInQuestions == [questions |-> QuestionIds]
fallbackBaselineQuestions == [questions |-> BaselineIds]

journalFallback(data) ==
    [safety |-> [label |-> "SAFE"],
     analysis |->
        [emotions |-> analyzeFallbackEmotions(data.journal),
         sentiment |-> calculateFallbackSentiment(data.journal),
         cognitive_distortions |-> << >>,
         topics |-> << >>,
         facet_signals |-> [f \in {"self_awareness", "self_regulation",
                                   "motivation", "empathy", "social_skills"}
                            |-> "0"],
         one_line_insight |-> "Continue reflecting on your experiences."],
     offline |-> TRUE]

baselineFallback ==
    [scores |-> [self_awareness |-> "0.6", self_regulation |-> "0.5",
                 motivation |-> "0.7", empathy |-> "0.6",
                 social_skills |-> "0.5"],
     strengths |-> <<"self_awareness">>,
     focus |-> <<"self_regulation", "social_skills">>,
     summary |-> "Baseline assessment completed offline.",
     offline |-> TRUE]

exerciseFallback ==
    [exercise |->
        [exercise_id |-> "fallback_breathing",
         title |-> "Simple Breathing Exercise",
         steps |-> <<"Sit comfortably", "Breathe in for 4 counts",
                     "Hold for 4 counts", "Breathe out for 4 counts",
                     "Repeat 5 times">>,
         expected_outcome |-> "Feeling more calm and centered",
         source_doc_id |-> "fallback",
         followup_question |-> "How do you feel after this exercise?"],
     offline |-> TRUE]

-----------------------------------------------------------------------------
(* ApiClient: the capability methods.  Each takes its input and what       *)
(* request() did (r) and yields how the returned promise settles.          *)

Resolved(v) == [settled |-> "resolved", value |-> v]
Rejected(e) == [settled |-> "rejected", value |-> e]

\* health() reporting a fixed text instead of the captured message
healthFixedMessage(input, r) ==
    IF r.ok THEN Resolved(r.value)
    ELSE Resolved([status |-> "offline", error |-> "Backend offline"])

\* health() without its catch: the failure of request() escapes
healthRethrows(input, r) ==
    IF r.ok THEN Resolved(r.value) ELSE Rejected(r.error)

health(input, r) ==
    IF r.ok THEN Resolved(r.value)
    ELSE Resolved([status |-> "offline", error |-> r.error.message])

getCheckInQuestions(input, r) ==
    IF r.ok THEN Resolved(r.value) ELSE Resolved(fallbackCheckInQuestions)

\* submitCheckIn() rebuilding the success payload with a marker
submitCheckInMarked(input, r) ==
    IF r.ok THEN Resolved([mood_index |-> r.value.mood_index, offline |-> FALSE])
    ELSE Resolved(checkInFallback(input))

submitCheckIn(input, r) ==
    IF r.ok THEN Resolved(r.value) ELSE Resolved(checkInFallback(input))

analyzeJournalEntry(input, r) ==
    IF r.ok THEN Resolved(r.value) ELSE Resolved(journalFallback(input))

getBaselineQuestions(input, r) ==
    IF r.ok THEN Resolved(r.value) ELSE Resolved(fallbackBaselineQuestions)

submitBaseline(input, r) ==
    IF r.ok THEN Resolved(r.value) ELSE Resolved(baselineFallback)

\* rewriteText() whose substitute is an empty rewrite
rewriteTextEmpty(input, r) ==
    IF r.ok THEN Resolved(r.value)
    ELSE Resolved([rewrite |-> << >>, removed_terms |-> << >>,
                   offline |-> TRUE])

rewriteText(input, r) ==
    IF r.ok THEN Resolved(r.value)
    ELSE Resolved([rewrite |-> input.text, removed_terms |-> << >>,
                   offline |-> TRUE])

\* getMoodSeries() passing the failure on in its substitute
getMoodSeriesWithReason(input, r) ==
    IF r.ok THEN Resolved(r.value)
    ELSE Resolved([series |-> << >>, offline |-> TRUE,
                   reason |-> r.error.message])

getMoodSeries(input, r) ==
    IF r.ok THEN Resolved(r.value)
    ELSE Resolved([series |-> << >>, offline |-> TRUE])

getExercise(input, r) ==
    IF r.ok THEN Resolved(r.value) ELSE Resolved(exerciseFallback)

\* safetyCheck() whose substitute looks at the text
safetyCheckByText(input, r) ==
    IF r.ok THEN Resolved(r.value)
    ELSE Resolved([label |-> IF Includes(input.text, "sad") THEN "ESCALATE"
                             ELSE "SAFE",
                   offline |-> TRUE])

safetyCheck(input, r) ==
    IF r.ok THEN Resolved(r.value)
    ELSE Resolved([label |-> "SAFE", offline |-> TRUE])

Capabilities ==
    {"health", "getCheckInQuestions", "submitCheckIn", "analyzeJournalEntry",
     "getBaselineQuestions", "submitBaseline", "rewriteText", "getMoodSeries",
     "getExercise", "safetyCheck"}

\* the method named cap, applied
Capability(cap, input, r) ==
    CASE cap = "health" -> health(input, r)
      [] cap = "getCheckInQuestions" -> getCheckInQuestions(input, r)
      [] cap = "submitCheckIn" -> submitCheckIn(input, r)
      [] cap = "analyzeJournalEntry" -> analyzeJournalEntry(input, r)
      [] cap = "getBaselineQuestions" -> getBaselineQuestions(input, r)
      [] cap = "submitBaseline" -> submitBaseline(input, r)
      [] cap = "rewriteText" -> rewriteText(input, r)
      [] cap = "getMoodSeries" -> getMoodSeries(input, r)
      [] cap = "getExercise" -> getExercise(input, r)
      [] cap = "safetyCheck" -> safetyCheck(input, r)

\* the caller's argument after the method has run: only the catch block of
\* submitCheckIn handles objects derived from it
ArgumentAfter(cap, input, r) ==
    IF cap = "submitCheckIn" /\ ~r.ok THEN checkInObjects(input).data
    ELSE input

\* the arguments the pages pass to each method
Inputs(cap) ==
    CASE cap = "submitCheckIn" -> CheckInData
      [] cap = "analyzeJournalEntry" -> { [journal |-> t] : t \in Texts }
      [] cap = "rewriteText" -> { [text |-> t] : t \in Texts }
      [] cap = "safetyCheck" -> { [text |-> t] : t \in Texts }
      [] cap = "getMoodSeries" -> { [userId |-> u, days |-> 30] : u \in UserIds }
      [] cap = "getExercise" -> { [user_id |-> u] : u \in UserIds }
      [] cap = "submitBaseline" -> { [SA1 |-> 3, SR1 |-> 4] }
      [] OTHER -> { NoInput }

\* JSON payloads the backend may answer with on success
RemotePayloads(cap) ==
    CASE cap = "health" -> { [status |-> "ok"] }
      [] cap = "getCheckInQuestions" ->
            { [questions |-> <<"sleep", "focus">>], [questions |-> << >>] }
      [] cap = "getBaselineQuestions" -> { [questions |-> <<"SA1", "SA2">>] }
      [] cap = "submitCheckIn" -> { [mood_index |-> 6250, streak |-> 2] }
      [] cap = "rewriteText" ->
            { [rewrite |-> <<"great">>, removed_terms |-> <<"the">>] }
      [] cap = "safetyCheck" -> { [label |-> "SAFE"], [label |-> "ESCALATE"] }
      [] OTHER -> { [data |-> "remote"] }

\* everything fetch and response.json() can do for one call of cap
FetchOutcomes(cap) ==
    { [kind |-> "response", status |-> 200, body |-> Json(p)] :
        p \in RemotePayloads(cap) }
    \cup { [kind |-> "response", status |-> 200, body |-> Unparsable] }
    \cup { [kind |-> "response", status |-> st, body |-> b] :
            st \in {401, 500},
            b \in { Json(e) : e \in ErrorBodies } \cup { Unparsable } }
    \cup { [kind |-> "reject", error |-> e] :
            e \in {FailedToFetch, LoadFailed, TimeoutError} }

NoError == [name |-> "none", message |-> ""]

-----------------------------------------------------------------------------
(* ApiClient: actions.                                                     *)

\* constructor() of the module-level apiClient
InitApi ==
    /\ isBrowser \in BOOLEAN
    /\ storage \in (IF isBrowser THEN StoredTokens \cup {Null} ELSE {Null})
    /\ token = (IF isBrowser THEN storage ELSE Null)
    /\ lastSet = token
    /\ pending = NoRequest
    /\ result = NoResult

\* a page reload: the module is evaluated again, constructor() runs
Construct ==
    /\ token' = (IF isBrowser THEN storage ELSE Null)
    /\ lastSet' = token'
    /\ pending' = NoRequest
    /\ result' = NoResult
    /\ UNCHANGED <<isBrowser, storage>>
    /\ UNCHANGED retryVars

\* `if (this.token)`: null and the empty string are falsy
Truthy(t) == t # Null /\ t # ""

\* the headers request() builds before it awaits fetch
AuthorizationHeader(t) == IF Truthy(t) THEN Bearer(t) ELSE NoHeader

\* setToken() that also rewrites the header of the request in flight
SetTokenRewritesPending(t) ==
    /\ token' = t
    /\ storage' = (IF isBrowser THEN t ELSE storage)
    /\ lastSet' = t
    /\ pending' = (IF pending = NoRequest THEN pending
                   ELSE [pending EXCEPT !.auth = AuthorizationHeader(t)])
    /\ UNCHANGED <<isBrowser, result>>
    /\ UNCHANGED retryVars

\* setToken() that keeps a credential already held instead of replacing it
SetTokenKeepsFirst(t) ==
    /\ token' = (IF token = Null THEN t ELSE token)
    /\ storage' = (IF isBrowser THEN token' ELSE storage)
    /\ lastSet' = t
    /\ UNCHANGED <<isBrowser, pending, result>>
    /\ UNCHANGED retryVars

SetToken(t) ==
    /\ token' = t
    /\ storage' = (IF isBrowser THEN t ELSE storage)
    /\ lastSet' = t
    /\ UNCHANGED <<isBrowser, pending, result>>
    /\ UNCHANGED retryVars

\* removeToken() that clears the in-memory token only
RemoveTokenMemoryOnly ==
    /\ token' = Null
    /\ storage' = storage
    /\ lastSet' = Null
    /\ UNCHANGED <<isBrowser, pending, result>>
    /\ UNCHANGED retryVars

RemoveToken ==
    /\ token' = Null
    /\ storage' = (IF isBrowser THEN Null ELSE storage)
    /\ lastSet' = Null
    /\ UNCHANGED <<isBrowser, pending, result>>
    /\ UNCHANGED retryVars

\* A capability method is called: request() builds the headers and suspends
\* at `await fetch`.
Dispatch(cap, input) ==
    /\ pending = NoRequest
    /\ pending' = [cap |-> cap, input |-> input,
                   auth |-> AuthorizationHeader(token),
                   requests |-> 1, fetches |-> 1]
    /\ result' = NoResult
    /\ UNCHANGED <<isBrowser, token, storage, lastSet>>
    /\ UNCHANGED retryVars

Call == \E cap \in Capabilities : \E input \in Inputs(cap) : Dispatch(cap, input)

\* a capability whose catch block calls request() once more before it
\* gives up: a failed fetch is followed by a second one
SettleRetriesOnce ==
    /\ pending # NoRequest
    /\ \E o \in FetchOutcomes(pending.cap) :
         LET r == request(o)
             s == Capability(pending.cap, pending.input, r)
         IN  IF ~r.ok /\ pending.requests = 1
             THEN /\ pending' = [pending EXCEPT !.requests = 2, !.fetches = 2]
                  /\ result' = result
             ELSE /\ result' = [cap |-> pending.cap, input |-> pending.input,
                                fetch |-> o,
                                thrown |-> IF r.ok THEN NoError ELSE r.error,
                                settled |-> s.settled, value |-> s.value,
                                argument |-> ArgumentAfter(pending.cap,
                                                           pending.input, r),
                                requests |-> pending.requests,
                                fetches |-> pending.fetches]
                  /\ pending' = NoRequest
    /\ UNCHANGED <<isBrowser, token, storage, lastSet>>
    /\ UNCHANGED retryVars

\* fetch settles: the rest of request() runs, then the rest of the method
Settle ==
    /\ pending # NoRequest
    /\ \E o \in FetchOutcomes(pending.cap) :
         LET r == request(o)
             s == Capability(pending.cap, pending.input, r)
         IN  result' = [cap |-> pending.cap, input |-> pending.input,
                        fetch |-> o,
                        thrown |-> IF r.ok THEN NoError ELSE r.error,
                        settled |-> s.settled, value |-> s.value,
                        argument |-> ArgumentAfter(pending.cap,
                                                   pending.input, r),
                        requests |-> pending.requests,
                        fetches |-> pending.fetches]
    /\ pending' = NoRequest
    /\ UNCHANGED <<isBrowser, token, storage, lastSet>>
    /\ UNCHANGED retryVars

Login == \E t \in Tokens : SetToken(t)

NextApi ==
    \/ Login
    \/ RemoveToken
    \/ Call
    \/ Settle
    \/ Construct

-----------------------------------------------------------------------------
(* Rewrite route: the provider and its answers.                            *)

GEMINI_MODELS == <<"gemini-1.5-flash", "gemini-1.0-pro">>

DefaultMaxRetries == 3   \* `maxRetries = 3`
MaxRetriesBound == 3     \* largest maxRetries a direct invocation is given

Absent == [present |-> FALSE]
Present(v) == [present |-> TRUE, val |-> v]

OverloadedMessage == "The model is overloaded. Please try again later."
InvalidKeyMessage == "API key not valid. Please pass a valid API key."
\* message of the SyntaxError response.json() raises on an HTML error page
HtmlBodySyntaxMessage == "Unexpected token < in JSON at position 0"
FetchFailedMessage == "fetch failed"

\* message.includes('overloaded')
IncludesOverloaded(message) == message \in {OverloadedMessage}

\* `HTTP ${response.status}`
HttpMessage(status) ==
    CASE status = 200 -> "HTTP 200"
      [] status = 400 -> "HTTP 400"
      [] status = 503 -> "HTTP 503"

\* What one provider call can do: answer with a status and a JSON body
\* (data.error and the first candidate's text, each present or not), or make
\* fetch / response.json() throw.
ProviderAnswers ==
    { [kind |-> "response", status |-> 200, error |-> Absent, text |-> t] :
        t \in {Absent, Present(""), Present("Rewritten.")} }
    \cup { [kind |-> "response", status |-> st, error |-> e, text |-> Absent] :
            st \in {200, 400, 503},
            e \in {Absent, Present(OverloadedMessage),
                   Present(InvalidKeyMessage)} }
    \cup { [kind |-> "reject", name |-> "TypeError",
            message |-> FetchFailedMessage],
           [kind |-> "reject", name |-> "SyntaxError",
            message |-> HtmlBodySyntaxMessage] }

\* the text read from a second candidate, which the answers never carry
ExtractTextSecondCandidate(a) == "No response generated"

\* data.candidates?.[0]?.content?.parts?.[0]?.text || 'No response generated'
ExtractText(a) ==
    IF a.text.present /\ a.text.val # "" THEN a.text.val
    ELSE "No response generated"

\* the success test reduced to `response.ok`
BranchIgnoresErrorField(a) ==
    IF a.kind = "reject" THEN "exception"
    ELSE IF Ok(a.status) THEN "success"
    ELSE IF (a.error.present /\ IncludesOverloaded(a.error.val))
            \/ a.status = 503 THEN "overload"
    ELSE "throw"

\* Which branch of the loop body an answer takes:
\*   "success"   line 38, "overload" line 43, "throw" line 57 (an Error is
\*   thrown inside the try), "exception" fetch or json() threw.
Branch(a) ==
    IF a.kind = "reject" THEN "exception"
    ELSE IF Ok(a.status) /\ ~a.error.present THEN "success"
    ELSE IF (a.error.present /\ IncludesOverloaded(a.error.val))
            \/ a.status = 503 THEN "overload"
    ELSE "throw"

\* Values of lastError.  `at` is the number of the provider call the value
\* comes from (object identity); type "object" is the plain data.error of a
\* body, type "Error" an instance of Error.
BodyError(a, n) ==
    IF a.error.present
    THEN [type |-> "object", message |-> a.error.val, at |-> n]
    ELSE Undefined

\* new Error(data.error?.message || `HTTP ${response.status}`)
ThrownError(a, n) ==
    [type |-> "Error",
     message |-> IF a.error.present THEN a.error.val ELSE HttpMessage(a.status),
     at |-> n]

CaughtError(a, n) == [type |-> "Error", message |-> a.message, at |-> n]

AllModelsFailed == [type |-> "Error", message |-> "All models failed", at |-> 0]

NoOutcome == [type |-> "none"]
NoResponse == [status |-> 0]

NoAnswer == [kind |-> "none"]

\* the second invocation before it is made
NoInvocation ==
    [rpc |-> "idle", maxRetries |-> DefaultMaxRetries, modelIndex |-> 0,
     attempt |-> 1, calls |-> << >>]

-----------------------------------------------------------------------------
(* Rewrite route: callGeminiWithRetry and POST.                            *)

\* the body of a POST request: request.json() throws, or yields `text`
RequestBodies ==
    { [parsable |-> FALSE, text |-> Undefined] }
    \cup { [parsable |-> TRUE, text |-> t] :
            t \in { Undefined, Str(""), Str("make this better"),
                    [type |-> "number", val |-> "42"] } }

\* no POST request is being handled
NoBody == [none |-> TRUE]

\* the test reduced to `typeof text !== 'string'`
InvalidTextTypeOnly(text) == text.type # "string"

\* `!text || typeof text !== 'string'`
InvalidText(text) == text.type # "string" \/ text.val = ""

InitRewrite ==
    /\ rpc = "idle"
    /\ caller = "none"
    /\ maxRetries = DefaultMaxRetries
    /\ modelIndex = 0
    /\ attempt = 1
    /\ lastError = Undefined
    /\ calls = << >>
    /\ outstanding = 0
    /\ answer = NoAnswer
    /\ outcome = NoOutcome
    /\ response = NoResponse
    /\ posted = NoBody
    /\ second = NoInvocation

\* `await fetch(...)` of attempt at on model mi
IssueFetch(mi, at) ==
    /\ modelIndex' = mi
    /\ attempt' = at
    /\ rpc' = "fetching"

CallEntry(mi, at) == [model |-> mi, attempt |-> at, branch |-> "pending", sleep |-> 0]

\* the first statements of callGeminiWithRetry, up to the first fetch
Enter(who, retries) ==
    /\ rpc \in {"idle", "done"}
    /\ caller' = who
    /\ maxRetries' = retries
    /\ lastError' = Undefined
    /\ calls' = <<CallEntry(0, 1)>>
    /\ answer' = NoAnswer
    /\ outcome' = NoOutcome
    /\ outstanding' = outstanding + 1
    /\ IssueFetch(0, 1)

\* callGeminiWithRetry called on its own, with any maxRetries
Invoke ==
    /\ \E retries \in 1..MaxRetriesBound : Enter("direct", retries)
    /\ response' = NoResponse
    /\ posted' = NoBody
    /\ UNCHANGED second
    /\ UNCHANGED apiVars

\* errorMessage of the inner catch of POST
ErrorMessage(error) ==
    IF error.type = "Error" THEN error.message ELSE "[object Object]"

\* what POST answers once callGeminiWithRetry has ended with out
PostResponse(out) ==
    IF out.type = "returned"
    THEN [status |-> 200, rewrittenText |-> out.text]
    ELSE IF IncludesOverloaded(ErrorMessage(out.error))
    THEN [status |-> 503,
          error |-> "The AI service is currently overloaded. Please try again in a few moments."]
    ELSE [status |-> 500, error |-> "Failed to rewrite text: ",
          detail |-> ErrorMessage(out.error)]

\* POST, up to the first fetch of callGeminiWithRetry (or to its response
\* when the body is rejected)
POST ==
    /\ rpc \in {"idle", "done"}
    /\ \E body \in RequestBodies :
         /\ posted' = body
         /\ IF ~body.parsable
            THEN /\ response' = [status |-> 500, error |-> "Internal server error"]
                 /\ rpc' = "idle"
                 /\ caller' = "none"
                 /\ calls' = << >>
                 /\ outcome' = NoOutcome
                 /\ answer' = NoAnswer
                 /\ UNCHANGED <<maxRetries, modelIndex, attempt, lastError, outstanding>>
            ELSE IF InvalidText(body.text)
            THEN /\ response' = [status |-> 400,
                                 error |-> "Text is required and must be a string"]
                 /\ rpc' = "idle"
                 /\ caller' = "none"
                 /\ calls' = << >>
                 /\ outcome' = NoOutcome
                 /\ answer' = NoAnswer
                 /\ UNCHANGED <<maxRetries, modelIndex, attempt, lastError, outstanding>>
            ELSE /\ Enter("POST", DefaultMaxRetries)
                 /\ response' = NoResponse
    /\ UNCHANGED second
    /\ UNCHANGED apiVars

\* callGeminiWithRetry ends with out; when POST awaits it, POST answers
Finish(out) ==
    /\ rpc' = "done"
    /\ outcome' = out
    /\ response' = (IF caller = "POST" THEN PostResponse(out) ELSE response)
    /\ UNCHANGED <<modelIndex, attempt>>

\* the history entry of the call just answered
Answered(branch, sleep) ==
    [calls EXCEPT ![Len(calls)] = [@ EXCEPT !.branch = branch, !.sleep = sleep]]

\* the inner loop is left for good: next model, or the final throw
NextModel(error, branch) ==
    IF modelIndex + 1 < Len(GEMINI_MODELS)
    THEN /\ calls' = Append(Answered(branch, 0), CallEntry(modelIndex + 1, 1))
         /\ IssueFetch(modelIndex + 1, 1)
         /\ outstanding' = outstanding
         /\ UNCHANGED <<outcome, response>>
    ELSE /\ calls' = Answered(branch, 0)
         /\ outstanding' = outstanding - 1
         /\ Finish([type |-> "thrown",
                    error |-> IF error = Undefined THEN AllModelsFailed ELSE error])

\* the overload branch backing off like the catch block
OverloadBackoffLinear(at) == 1000 * at

\* Math.pow(2, attempt) * 1000, the delay of the overload branch
OverloadBackoff(at) == (2 ^ at) * 1000

\* the catch block backing off like the overload branch
CatchBackoffExponential(at) == (2 ^ at) * 1000

\* 1000 * attempt, the delay of the catch block
CatchBackoff(at) == 1000 * at

\* the retry test off by one: one attempt fewer per model
RetryOneShort(error, branch, delay) ==
    /\ lastError' = error
    /\ IF attempt + 1 < maxRetries
       THEN /\ calls' = Answered(branch, delay)
            /\ outstanding' = outstanding - 1
            /\ rpc' = "sleeping"
            /\ UNCHANGED <<modelIndex, attempt, outcome, response>>
       ELSE NextModel(error, branch)

\* the retry test off by one the other way: one attempt more per model
RetryOneMore(error, branch, delay) ==
    /\ lastError' = error
    /\ IF attempt < maxRetries + 1
       THEN /\ calls' = Answered(branch, delay)
            /\ outstanding' = outstanding - 1
            /\ rpc' = "sleeping"
            /\ UNCHANGED <<modelIndex, attempt, outcome, response>>
       ELSE NextModel(error, branch)

\* the attempt failed with lastError = error: back off and retry the same
\* model while attempt < maxRetries, else leave the inner loop
RetryOrNextModel(error, branch, delay) ==
    /\ lastError' = error
    /\ IF attempt < maxRetries
       THEN /\ calls' = Answered(branch, delay)
            /\ outstanding' = outstanding - 1
            /\ rpc' = "sleeping"
            /\ UNCHANGED <<modelIndex, attempt, outcome, response>>
       ELSE NextModel(error, branch)

\* The provider answers the outstanding call; the loop body runs up to its
\* next await (a timer or the next fetch) or to the end of the function.
FetchResolve ==
    /\ rpc = "fetching"
    /\ \E a \in ProviderAnswers :
         /\ answer' = a
         /\ CASE Branch(a) = "success" ->
                   /\ calls' = Answered("success", 0)
                   /\ outstanding' = outstanding - 1
                   /\ Finish([type |-> "returned", text |-> ExtractText(a)])
                   /\ UNCHANGED lastError
              [] Branch(a) = "overload" ->
                   RetryOrNextModel(BodyError(a, Len(calls)), "overload",
                                    OverloadBackoff(attempt))
              [] Branch(a) = "throw" ->
                   RetryOrNextModel(ThrownError(a, Len(calls)), "throw",
                                    CatchBackoff(attempt))
              [] Branch(a) = "exception" ->
                   RetryOrNextModel(CaughtError(a, Len(calls)), "exception",
                                    CatchBackoff(attempt))
    /\ UNCHANGED <<caller, maxRetries, posted, second>>
    /\ UNCHANGED apiVars

\* the backoff timer fires: attempt++ and the next fetch on the same model
TimerFires ==
    /\ rpc = "sleeping"
    /\ calls' = Append(calls, CallEntry(modelIndex, attempt + 1))
    /\ outstanding' = outstanding + 1
    /\ IssueFetch(modelIndex, attempt + 1)
    /\ UNCHANGED <<caller, maxRetries, lastError, answer, outcome, response,
                   posted, second>>
    /\ UNCHANGED apiVars

NextRewrite ==
    \/ POST
    \/ Invoke
    \/ FetchResolve
    \/ TimerFires

-----------------------------------------------------------------------------
(* Rewrite route: a second POST request handled while the first is at an   *)
(* await.  It runs the same function with locals of its own.               *)

firstVars == <<rpc, caller, maxRetries, modelIndex, attempt, lastError,
               calls, outstanding, answer, outcome, response, posted>>

\* `await fetch(...)` of attempt at on model mi, by the second invocation
SecondFetch(inv, mi, at) ==
    [inv EXCEPT !.rpc = "fetching", !.modelIndex = mi, !.attempt = at,
                !.calls = Append(@, [model |-> mi, attempt |-> at])]

\* a second POST with a valid text calls callGeminiWithRetry(prompt)
SecondPOST ==
    /\ second.rpc \in {"idle", "done"}
    /\ second' = SecondFetch(NoInvocation, 0, 1)
    /\ UNCHANGED firstVars
    /\ UNCHANGED apiVars

\* the provider answers the second invocation's call
SecondFetchResolve ==
    /\ second.rpc = "fetching"
    /\ \E a \in ProviderAnswers :
         second' =
            IF Branch(a) = "success" THEN [second EXCEPT !.rpc = "done"]
            ELSE IF second.attempt < second.maxRetries
            THEN [second EXCEPT !.rpc = "sleeping"]
            ELSE IF second.modelIndex + 1 < Len(GEMINI_MODELS)
            THEN SecondFetch(second, second.modelIndex + 1, 1)
            ELSE [second EXCEPT !.rpc = "done"]
    /\ UNCHANGED firstVars
    /\ UNCHANGED apiVars

\* a module-level attempt counter: the second invocation's timer advances
\* the counter of the first
SecondTimerFiresSharedAttempt ==
    /\ second.rpc = "sleeping"
    /\ attempt' = attempt + 1
    /\ second' = SecondFetch(second, second.modelIndex, attempt + 1)
    /\ UNCHANGED <<rpc, caller, maxRetries, modelIndex, lastError, calls,
                   outstanding, answer, outcome, response, posted>>
    /\ UNCHANGED apiVars

\* the second invocation's backoff timer fires
SecondTimerFires ==
    /\ second.rpc = "sleeping"
    /\ second' = SecondFetch(second, second.modelIndex, second.attempt + 1)
    /\ UNCHANGED firstVars
    /\ UNCHANGED apiVars

NextInterleaved ==
    \/ POST
    \/ Invoke
    \/ FetchResolve
    \/ TimerFires
    \/ SecondPOST
    \/ SecondFetchResolve
    \/ SecondTimerFires

-----------------------------------------------------------------------------
(* Specifications.                                                         *)

\* the browser (or a server render) has loaded lib/api.ts
Init == InitApi /\ InitRewrite

\* the route runs on the server, where there is no window
InitServer == InitApi /\ ~isBrowser /\ InitRewrite

SpecApi == Init /\ [][NextApi]_vars

SpecRewrite == InitServer /\ [][NextRewrite]_vars

\* Every provider call is answered (with one of ProviderAnswers) and every
\* timer fires: the event loop runs a continuation that stays ready.
SpecRewriteFair ==
    SpecRewrite /\ WF_vars(FetchResolve) /\ WF_vars(TimerFires)

SpecInterleaved == InitServer /\ [][NextInterleaved]_vars

-----------------------------------------------------------------------------
(* The substitutes as functions of their input: a capability call is in    *)
(* flight with an input drawn from a larger set, and fetch settles.        *)

MaxAnswers == 3     \* answered questions in a submission
MaxTextWords == 2   \* words in a free text
MaxRun == 6         \* repetitions of one word in a long text

CheckInsUpTo(m) ==
    UNION { { CheckInOn(u, d, a) :
                u \in UserIds, d \in Dates,
                a \in [{QuestionIds[i] : i \in 1..n} -> Scale] }
            : n \in 1..m }

\* k times the word w
Repeat(w, k) == [i \in 1..k |-> w]

\* long texts: a run of one word followed by a run of another, so that the
\* token count passes 10
LongTexts ==
    { Repeat(w, k) \o Repeat(v, m) :
        w \in Vocabulary, v \in Vocabulary, k \in 0..MaxRun, m \in 0..MaxRun }

SubstituteTexts ==
    UNION { [1..n -> Vocabulary] : n \in 0..MaxTextWords } \cup LongTexts

SubstituteInputs(cap) ==
    CASE cap = "submitCheckIn" -> CheckInsUpTo(MaxAnswers)
      [] cap = "analyzeJournalEntry" -> { [journal |-> t] : t \in SubstituteTexts }
      [] cap = "rewriteText" -> { [text |-> t] : t \in SubstituteTexts }
      [] cap = "safetyCheck" -> { [text |-> t] : t \in SubstituteTexts }
      [] OTHER -> Inputs(cap)

\* a capability method has been called by a client without credential
InitSubstitute ==
    /\ isBrowser = TRUE
    /\ storage = Null
    /\ token = Null
    /\ lastSet = Null
    /\ result = NoResult
    /\ pending \in UNION { { [cap |-> cap, input |-> input,
                              auth |-> AuthorizationHeader(Null),
                              requests |-> 1, fetches |-> 1] :
                               input \in SubstituteInputs(cap) } :
                           cap \in Capabilities }
    /\ InitRewrite

SpecSubstitute == InitSubstitute /\ [][Settle]_vars

-----------------------------------------------------------------------------
(* Properties of the ApiClient (checked under SpecApi).                    *)

\* the last capability call has settled after request() threw
Degraded == result # NoResult /\ result.thrown # NoError

\* the last call was one of cap and returned its substitute
DegradedCall(cap) == Degraded /\ result.cap = cap

\* the last capability call has settled after request() returned a payload
Succeeded == result # NoResult /\ result.thrown = NoError

\* the marker a caller can test: offline: true, or status 'offline'
HasMarker(v) ==
    \/ "offline" \in DOMAIN v /\ v.offline = TRUE
    \/ "status" \in DOMAIN v /\ v.status = "offline"

\* C1: every capability call resolves with a value, whatever fetch did
\* (payload, non-success status, unreachable network, deadline exceeded,
\* unparsable body); it never rejects.
C1_NeverRejects == result # NoResult => result.settled = "resolved"

\* every capability has resolved after a rejected fetch
C1_Witness ==
    /\ Degraded
    /\ result.fetch.kind = "reject"
    /\ result.cap = "analyzeJournalEntry"
    /\ result.settled = "resolved"

\* C2 (as claimed): whenever a capability returns its local substitute, the
\* payload carries the marker, for every capability.
C2_SubstituteCarriesMarker == Degraded => HasMarker(result.value)

\* C8: on Transport success the capability resolves with exactly the JSON
\* payload the response carried.
C8_PayloadVerbatim ==
    (result # NoResult /\ result.fetch.kind = "response"
       /\ Ok(result.fetch.status) /\ result.fetch.body.json)
    => /\ result.settled = "resolved"
       /\ result.value = result.fetch.body.value

\* submitCheckIn has returned a remote payload
C8_Witness ==
    /\ Succeeded
    /\ result.cap = "submitCheckIn"
    /\ result.value = [mood_index |-> 6250, streak |-> 2]

\* C9 (as claimed): a call that exceeds the deadline is surfaced by
\* request() as the same network-error as an unreachable backend, and the
\* capability returns its substitute.
C9_TimeoutIsNetworkError ==
    (result # NoResult /\ result.fetch.kind = "reject"
       /\ result.fetch.error = TimeoutError)
    => /\ result.thrown = request([kind |-> "reject", error |-> FailedToFetch]).error
       /\ result.settled = "resolved"

\* C10 (as claimed): a dispatched request carries the bearer header exactly
\* when a token has been set and not removed since, and then it carries
\* that token.
C10_HeaderIffTokenSet ==
    [][(pending = NoRequest /\ pending' # NoRequest)
         => pending'.auth = (IF lastSet = Null THEN NoHeader
                             ELSE Bearer(lastSet))]_vars

\* C10 (amended): a dispatched request carries the bearer header exactly
\* when a non-empty token has been set and not removed since, and then it
\* carries that token; the empty string counts as no credential.
C10_HeaderIffNonEmptyTokenSet ==
    [][(pending = NoRequest /\ pending' # NoRequest)
         => pending'.auth = (IF lastSet = Null \/ lastSet = "" THEN NoHeader
                             ELSE Bearer(lastSet))]_vars

\* a request is in flight with the token that is set
C10_Witness ==
    /\ pending # NoRequest
    /\ lastSet = "tokB"
    /\ pending.auth = Bearer("tokB")

\* C11: in a browser the in-memory credential always equals the value
\* stored under 'auth_token' (none in memory exactly when the key is
\* absent), and a client constructed afterwards starts with the credential
\* the previous one held.
C11_CredentialMirrored ==
    /\ [](isBrowser => (token = storage /\ (token = Null <=> storage = Null)))
    /\ [][(isBrowser /\ Construct) => token' = token]_vars

\* a token set in this visit is held in memory and in storage
C11_Witness ==
    /\ isBrowser
    /\ token = "tokB"
    /\ storage = "tokB"

\* the last call's fetch resolved with a non-success status
Rejection ==
    result # NoResult /\ result.fetch.kind = "response" /\ ~Ok(result.fetch.status)

\* the parsed error body of the last call ({} when it could not be parsed)
ErrorData ==
    IF result.fetch.body.json THEN result.fetch.body.value ELSE EmptyObject

HasDetail == "detail" \in DOMAIN ErrorData

\* C21 (as claimed): for a non-success status request() throws an Error
\* whose message is the detail field of the parsed body when the field is
\* present and the generic status message otherwise; it is never the
\* network-error.
C21_DetailOrStatus ==
    Rejection
    => /\ result.thrown.name = "Error"
       /\ result.thrown.message # ConnectMessage
       /\ HasDetail => ErrorData.detail = Str(result.thrown.message)
       /\ ~HasDetail => result.thrown.message = StatusMessage(result.fetch.status)

\* C21 (amended): the message is the detail field converted to a string
\* when the field is present and truthy (not the empty string), and the
\* generic status message otherwise; it is never the network-error.
C21_TruthyDetailOrStatus ==
    Rejection
    => /\ result.thrown.name = "Error"
       /\ result.thrown.message # ConnectMessage
       /\ result.thrown.message =
             (IF HasDetail /\ ErrorData.detail # Str("")
              THEN (IF ErrorData.detail.type = "string"
                    THEN ErrorData.detail.val ELSE "[object Object]")
              ELSE StatusMessage(result.fetch.status))

\* a 401 with a detail has failed with that detail
C21_Witness ==
    /\ Rejection
    /\ result.fetch.status = 401
    /\ HasDetail
    /\ result.thrown = [name |-> "Error", message |-> "Not authenticated"]

\* C22 (as claimed): when fetch reports that the network could not be
\* reached (it rejects with a TypeError), request() fails with the
\* 'Cannot connect to backend' error, and a failure after a response never
\* carries that message.
C22_UnreachableIsConnectError ==
    /\ (result # NoResult /\ result.fetch.kind = "reject"
          /\ result.fetch.error.name = "TypeError")
       => result.thrown = [name |-> "Error", message |-> ConnectMessage]
    /\ (Degraded /\ result.fetch.kind = "response")
       => result.thrown.message # ConnectMessage

\* C23: a capability call makes exactly one request() call and that call
\* exactly one fetch, whether it is still in flight, has returned a payload
\* or has failed: nothing is retried.
C23_OneNetworkCall ==
    /\ pending # NoRequest => (pending.requests = 1 /\ pending.fetches = 1)
    /\ result # NoResult => (result.requests = 1 /\ result.fetches = 1)

\* a call has returned its substitute after a single rejected fetch
C23_Witness ==
    /\ Degraded
    /\ result.cap = "getMoodSeries"
    /\ result.fetch.kind = "reject"
    /\ result.fetches = 1

\* every way request() can fail for a call of cap
Failures(cap) ==
    { request(o) : o \in { f \in FetchOutcomes(cap) : ~request(f).ok } }

\* C25: the substitute a failed call returned is the one the same method
\* returns for the same input under every other failure of request(), in
\* every state of the credential and after every history of calls; only the
\* error text of the health probe follows the failure.
C25_SubstituteDeterministic ==
    Degraded
    => \A r \in Failures(result.cap) :
          LET other == Capability(result.cap, result.input, r).value
          IN  IF result.cap = "health"
              THEN /\ other.status = result.value.status
                   /\ r.error.message = result.thrown.message
                      => other = result.value
              ELSE other = result.value

\* a journal entry has been analysed locally after a 500, by a client that
\* holds a credential
C25_Witness ==
    /\ Degraded
    /\ token = "tokB"
    /\ result.cap = "analyzeJournalEntry"
    /\ result.fetch.kind = "response" /\ result.fetch.status = 500
    /\ result.value = journalFallback(result.input)

\* C29: a request carries the credential that is current when it is
\* dispatched; while it is in flight no step (setToken and removeToken
\* included) changes its Authorization header.
C29_HeaderFixedAtDispatch ==
    [][/\ (pending = NoRequest /\ pending' # NoRequest)
          => pending'.auth = (IF token = Null \/ token = "" THEN NoHeader
                              ELSE Bearer(token))
       /\ (pending # NoRequest /\ pending' # NoRequest)
          => pending'.auth = pending.auth]_vars

\* the credential has been removed while a request that carries it is in
\* flight
C29_Witness ==
    /\ pending # NoRequest
    /\ pending.auth = Bearer("tokA")
    /\ token = Null
    /\ lastSet = Null

\* C30: after submitCheckIn has returned its substitute the caller's data
\* object still holds user_id, date and every answer with the value it was
\* passed with, and the step that computed the substitute has changed
\* neither the credential nor the stored one.
C30_SubmissionUntouched ==
    /\ [](DegradedCall("submitCheckIn")
          => /\ DOMAIN result.argument = DOMAIN result.input
             /\ {"user_id", "date"} \subseteq DOMAIN result.argument
             /\ \A k \in DOMAIN result.input :
                   result.argument[k] = result.input[k])
    /\ [][(pending # NoRequest /\ result' # NoResult /\ result'.thrown # NoError)
            => (token' = token /\ storage' = storage)]_vars

\* a signed-in browser client has computed the substitute of a submission
C30_Witness ==
    /\ DegradedCall("submitCheckIn")
    /\ isBrowser /\ token = "tokA" /\ storage = "tokA"
    /\ result.argument = CheckIn("u1", [mood |-> 2])
    /\ result.value.mood_index = 2500

-----------------------------------------------------------------------------
(* Properties of the substitutes (checked under SpecSubstitute).           *)

\* the fields of a submission that are answers
AnswerKeys(data) == DOMAIN data \ {"user_id", "date"}

\* C12: for every non-empty set of answers in 1..5 the check-in substitute
\* is ((mean - 1) / 4) * 100 rounded to two decimals, within 0..100, and
\* carries the marker.  In hundredths, with n answers of sum s, the exact
\* value is x = 2500 * (s - n) / n and m is its rounding when
\* x - 1/2 < m <= x + 1/2.
C12_MoodIndexRounded ==
    DegradedCall("submitCheckIn")
    => LET n == Cardinality(AnswerKeys(result.input))
           s == SumOver(result.input, AnswerKeys(result.input))
           m == result.value.mood_index
       IN  /\ 5000 * (s - n) - n < 2 * n * m
           /\ 2 * n * m <= 5000 * (s - n) + n
           /\ 0 <= m /\ m <= 10000
           /\ result.value.offline = TRUE

\* the answers 4, 2, 3 have given 50.00
C12_Witness ==
    /\ DegradedCall("submitCheckIn")
    /\ result.input = CheckIn("u1", [mood |-> 4, stress |-> 2, energy |-> 3])
    /\ result.value.mood_index = 5000

\* C13: the fallback sentiment lies in [-1, 1] for every text, the empty
\* one and those of more than ten tokens included.
C13_SentimentInRange ==
    DegradedCall("analyzeJournalEntry")
    => LET sentiment == result.value.analysis.sentiment
       IN  /\ sentiment.den > 0
           /\ -sentiment.den <= sentiment.num
           /\ sentiment.num <= sentiment.den

\* twelve positive tokens have been clamped to 1
C13_Witness ==
    /\ DegradedCall("analyzeJournalEntry")
    /\ result.input.journal = Repeat("happy", 6) \o Repeat("great", 6)
    /\ result.value.analysis.sentiment = [num |-> 12, den |-> 12]

EmotionTags == {"Joy", "Sadness", "Anger", "Anxiety"}

Lexicon(tag) ==
    CASE tag = "Joy" -> {"happy", "joy", "good"}
      [] tag = "Sadness" -> {"sad", "down", "upset"}
      [] tag = "Anger" -> {"angry", "mad", "frustrated"}
      [] tag = "Anxiety" -> {"worried", "anxious", "nervous"}

Mentions(text, tag) == \E keyword \in Lexicon(tag) : Includes(text, keyword)

Labels(emotions) == { emotions[i].label : i \in 1..Len(emotions) }

\* C14: a text with a keyword of the joy, sadness, anger or anxiety lexicon
\* gets the corresponding tag; a text with no keyword of any of them gets
\* exactly one 'Reflection' tag.
C14_EmotionTags ==
    DegradedCall("analyzeJournalEntry")
    => LET text == result.input.journal
           emotions == result.value.analysis.emotions
       IN  /\ \A tag \in EmotionTags :
                Mentions(text, tag) => tag \in Labels(emotions)
           /\ (\A tag \in EmotionTags : ~Mentions(text, tag))
              => (Len(emotions) = 1 /\ emotions[1].label = "Reflection")

\* a text with a joy keyword and a capitalised sadness keyword got both tags
C14_Witness ==
    /\ DegradedCall("analyzeJournalEntry")
    /\ result.input.journal = <<"happy", "Sadly">>
    /\ Labels(result.value.analysis.emotions) = {"Joy", "Sadness"}

\* C15: the rewrite substitute is the caller's text unchanged, with no
\* removed terms and the marker, for every text.
C15_RewriteIdentity ==
    DegradedCall("rewriteText")
    => result.value = [rewrite |-> result.input.text,
                       removed_terms |-> << >>, offline |-> TRUE]

\* a two-word text came back as it was
C15_Witness ==
    /\ DegradedCall("rewriteText")
    /\ result.input.text = <<"the", "great">>
    /\ result.value.rewrite = <<"the", "great">>

C17_FixedSubstitutes ==
    /\ DegradedCall("safetyCheck")
       => result.value = [label |-> "SAFE", offline |-> TRUE]
    /\ DegradedCall("getMoodSeries")
       => result.value = [series |-> << >>, offline |-> TRUE]
    /\ DegradedCall("getExercise")
       => /\ result.value.exercise.exercise_id = "fallback_breathing"
          /\ result.value.exercise.title = "Simple Breathing Exercise"
          /\ result.value.offline = TRUE
    /\ DegradedCall("analyzeJournalEntry")
       => result.value.safety = [label |-> "SAFE"]

\* a text with a sadness keyword has been labelled SAFE
C17_Witness ==
    /\ DegradedCall("safetyCheck")
    /\ result.input.text = <<"Sadly">>
    /\ result.value.label = "SAFE"

\* the answers of a submission, without the identifying fields
Answers(data) == [k \in AnswerKeys(data) |-> data[k]]

\* C24: the check-in substitute's mood index is the same for every user_id
\* and date the same answers are submitted with, and it changes when any
\* one answer is changed.
C24_MoodIndexIgnoresIdentity ==
    DegradedCall("submitCheckIn")
    => /\ \A u \in UserIds, d \in Dates :
            checkInFallback(CheckInOn(u, d, Answers(result.input))).mood_index
            = result.value.mood_index
       /\ \A k \in AnswerKeys(result.input) :
            \A v \in Scale \ {result.input[k]} :
               checkInFallback([result.input EXCEPT ![k] = v]).mood_index
               # result.value.mood_index

\* the second user's submission of the second day has been averaged
C24_Witness ==
    /\ DegradedCall("submitCheckIn")
    /\ result.input = CheckInOn("u2", "2025-01-02", [mood |-> 5, stress |-> 2])
    /\ result.value.mood_index = 6250

-----------------------------------------------------------------------------
(* Properties of the rewrite route (checked under SpecRewrite).            *)

N == Len(GEMINI_MODELS)

Thrown == rpc = "done" /\ outcome.type = "thrown"
Returned == rpc = "done" /\ outcome.type = "returned"

\* every provider call answered so far reported overload
AllOverloaded ==
    /\ calls # << >>
    /\ \A i \in 1..Len(calls) : calls[i].branch \in {"overload", "pending"}

\* C3 (as claimed): a non-overload application error on attempt 1 of target
\* 1 ends the invocation at once with that error: one provider call in
\* total.
C3_FailFast ==
    (calls # << >> /\ calls[1].branch = "throw")
    => /\ Thrown
       /\ Len(calls) = 1
       /\ outcome.error.at = 1

\* C4: while the provider reports overload on every call, the attempts are
\* maxRetries per model in list order, the delay after attempt k on a model
\* (before attempt k + 1 on it) is 2^k seconds, strictly increasing, and the
\* invocation fails after exactly N * maxRetries attempts.
C4_OverloadSchedule ==
    AllOverloaded
    => /\ \A i \in 1..Len(calls) :
            /\ calls[i].model = (i - 1) \div maxRetries
            /\ calls[i].attempt = ((i - 1) % maxRetries) + 1
       /\ \A i \in 1..(Len(calls) - 1) :
            calls[i].model = calls[i + 1].model
            => /\ calls[i].sleep = (2 ^ calls[i].attempt) * 1000
               /\ \A j \in 1..(i - 1) :
                    calls[j].model = calls[i].model
                    => calls[j].sleep < calls[i].sleep
       /\ Len(calls) <= N * maxRetries
       /\ rpc = "done" => (Thrown /\ Len(calls) = N * maxRetries)

\* an always-overloaded provider has exhausted both models, three attempts
\* each
C4_Witness ==
    /\ AllOverloaded
    /\ Thrown
    /\ maxRetries = 3
    /\ Len(calls) = 6
    /\ calls[2].sleep = 4000

\* the first model reported overload on every attempt and the next model
\* succeeded on its first attempt
FailoverScenario ==
    /\ maxRetries = DefaultMaxRetries
    /\ calls # << >>
    /\ calls[Len(calls)] =
          [model |-> 1, attempt |-> 1, branch |-> "success", sleep |-> 0]
    /\ \A i \in 1..Len(calls) : calls[i].model = 0 => calls[i].branch = "overload"

FailoverAttempts ==
    /\ Len(calls) = DefaultMaxRetries + 1
    /\ \A i \in 1..DefaultMaxRetries :
          calls[i].model = 0 /\ calls[i].attempt = i
    /\ Returned

\* the text a successful answer carries (none counts as empty)
TextOf(a) == IF a.text.present THEN a.text.val ELSE ""

\* C5 (as claimed): in the failover scenario there are exactly maxRetries
\* attempts on the first model, one on the next, and the text of that
\* answer is returned.
C5_FailoverReturnsText ==
    FailoverScenario => (FailoverAttempts /\ outcome.text = TextOf(answer))

\* C5 (amended): as claimed, except that an answer without text (or with an
\* empty one) makes the function return 'No response generated'.
C5_FailoverReturnsTextOrPlaceholder ==
    FailoverScenario
    => /\ FailoverAttempts
       /\ TextOf(answer) # "" => outcome.text = TextOf(answer)
       /\ TextOf(answer) = "" => outcome.text = "No response generated"

\* the failover has happened and the second model's text was returned
C5_Witness ==
    /\ FailoverScenario
    /\ answer.text = Present("Rewritten.")
    /\ outcome.text = "Rewritten."

\* C6 (as claimed): POST answers 503 when callGeminiWithRetry failed after
\* the provider reported overload on every attempt of every model, and 500
\* when it failed on an attempt that did not report overload.
C6_OverloadIs503 ==
    (caller = "POST" /\ Thrown)
    => /\ AllOverloaded => response.status = 503
       /\ calls[Len(calls)].branch # "overload" => response.status = 500

\* C7 (as claimed): when every model has exhausted its retries, the error
\* raised is the one observed on the last attempt made.
C7_RaisesLastError ==
    Thrown => outcome.error.at = Len(calls)

\* the first model has answered all its attempts with overload and the
\* invocation has moved on to the next model
FirstModelOverloaded ==
    /\ maxRetries = DefaultMaxRetries
    /\ \E i \in 1..Len(calls) : calls[i].model = 1
    /\ \A i \in 1..Len(calls) : calls[i].model = 0 => calls[i].branch = "overload"

\* C18 (as claimed): each of the three overloaded attempts is followed by a
\* backoff, of 2 s, 4 s and 8 s, the third one before the first call to the
\* next model.
C18_ThreeBackoffs ==
    FirstModelOverloaded
    => /\ calls[1].sleep = 2000
       /\ calls[2].sleep = 4000
       /\ calls[3].sleep = 8000

\* C18 (amended): the first two overloaded attempts are followed by
\* backoffs of 2 s and 4 s; the third is followed at once, without backoff,
\* by the first call to the next model.
C18_TwoBackoffsThenFailover ==
    FirstModelOverloaded
    => /\ calls[1].sleep = 2000
       /\ calls[2].sleep = 4000
       /\ calls[3].sleep = 0
       /\ calls[3].model = 0
       /\ calls[4].model = 1 /\ calls[4].attempt = 1

\* the failover has just happened: the next model's first call is pending
C18_Witness ==
    /\ FirstModelOverloaded
    /\ Len(calls) = 4
    /\ calls[4].branch = "pending"
    /\ rpc = "fetching"

\* C19: an exception of fetch or response.json() on attempt k of a model is
\* followed, when k < maxRetries, by a sleep of k seconds and attempt k + 1
\* on the same model; when k = maxRetries and another model is left, by
\* attempt 1 on the next model at once, the invocation going on.
C19_ExceptionRetried ==
    \A i \in 1..Len(calls) :
        calls[i].branch = "exception"
        => IF calls[i].attempt < maxRetries
           THEN /\ calls[i].sleep = 1000 * calls[i].attempt
                /\ i = Len(calls) => rpc = "sleeping"
                /\ i < Len(calls)
                   => /\ calls[i + 1].model = calls[i].model
                      /\ calls[i + 1].attempt = calls[i].attempt + 1
           ELSE /\ calls[i].sleep = 0
                /\ calls[i].model + 1 < N
                   => /\ i < Len(calls)
                      /\ calls[i + 1].model = calls[i].model + 1
                      /\ calls[i + 1].attempt = 1

\* three exceptions on the first model, then the first call to the next
C19_Witness ==
    /\ maxRetries = 3
    /\ Len(calls) = 4
    /\ \A i \in 1..3 : calls[i].branch = "exception"
    /\ calls[2].sleep = 2000
    /\ calls[4] = CallEntry(1, 1)
    /\ rpc = "fetching"

\* an answer with an ok status and no error field in its body
SuccessAnswer(a) == a.kind = "response" /\ Ok(a.status) /\ ~a.error.present

\* calls are made one at a time, model after model, each model only after
\* all attempts on the one before; nothing follows a success
OneCallAtATime ==
    /\ outstanding \in {0, 1}
    /\ outstanding = 1 <=> rpc = "fetching"
    /\ \A i \in 1..(Len(calls) - 1) :
          /\ calls[i].branch \notin {"pending", "success"}
          /\ \/ calls[i + 1].model = calls[i].model
             \/ /\ calls[i + 1].model = calls[i].model + 1
                /\ calls[i].attempt = maxRetries
    /\ Returned <=> SuccessAnswer(answer)
    /\ Returned => calls[Len(calls)].branch = "success"

\* C20 (as claimed): at most one provider call is outstanding, a model is
\* first called only after every attempt on the one before has completed,
\* and a successful attempt ends the invocation with its text.
C20_SequentialAndReturnsText ==
    /\ OneCallAtATime
    /\ Returned => outcome.text = TextOf(answer)

\* C20 (amended): as claimed, except that a successful answer without text
\* (or with an empty one) ends the invocation with 'No response generated'.
C20_SequentialAndReturnsTextOrPlaceholder ==
    /\ OneCallAtATime
    /\ Returned => outcome.text = (IF TextOf(answer) = ""
                                   THEN "No response generated"
                                   ELSE TextOf(answer))

\* the second attempt has succeeded and its text has been returned
C20_Witness ==
    /\ Returned
    /\ Len(calls) = 2
    /\ outstanding = 0
    /\ outcome.text = "Rewritten."

\* the calls of an invocation alone: maxRetries attempts per model, in
\* list order; log is a prefix of that schedule
OnSchedule(log, retries) ==
    \A i \in 1..Len(log) :
        /\ log[i].model = (i - 1) \div retries
        /\ log[i].attempt = ((i - 1) % retries) + 1
        /\ log[i].model < N

\* C26: when two invocations run interleaved, the calls of each are the
\* ones it makes alone (attempts 1..maxRetries on each model in turn, one
\* more call per failed answer), and a step of one leaves the target index,
\* attempt count and last error of the other as they were.
C26_RetryStatePrivate ==
    /\ [](OnSchedule(calls, maxRetries)
          /\ OnSchedule(second.calls, second.maxRetries))
    /\ [][(second' # second) => UNCHANGED <<modelIndex, attempt, lastError>>]_vars
    /\ [][(<<modelIndex, attempt, lastError>>' # <<modelIndex, attempt, lastError>>)
            => second' = second]_vars

\* both invocations are in flight: the first sleeps after its second
\* attempt, the second awaits the first answer of the next model
C26_Witness ==
    /\ rpc = "sleeping" /\ attempt = 2 /\ Len(calls) = 2
    /\ second.rpc = "fetching" /\ second.modelIndex = 1
    /\ Len(second.calls) = 4

\* the invocation is at one of its awaits
Running == rpc \in {"fetching", "sleeping"}

\* C27: an invocation never makes more than N * maxRetries provider calls,
\* and, every call being answered, it ends: it returns a text or throws.
C27_Terminates ==
    /\ [](Len(calls) <= N * maxRetries)
    /\ Running ~> (Returned \/ Thrown)

\* an invocation has ended after N * maxRetries calls that were answered
\* with an overload, an application error and exceptions
C27_Witness ==
    /\ Thrown
    /\ maxRetries = 3
    /\ Len(calls) = N * maxRetries
    /\ calls[1].branch = "overload"
    /\ calls[2].branch = "throw"
    /\ calls[3].branch = "exception"

\* the posted body parsed and its text is missing, empty or not a string
TextRejected ==
    /\ posted # NoBody
    /\ posted.parsable
    /\ \/ posted.text = Undefined
       \/ posted.text = Str("")
       \/ posted.text.type # "string"

\* C28: a POST whose text is missing, empty or not a string is answered 400
\* without any provider call; every POST ends in a response with status
\* 200, 400, 500 or 503; and 200 is answered only after a provider attempt
\* succeeded.
C28_PostAlwaysAnswers ==
    /\ [](TextRejected => (response.status = 400 /\ calls = << >>
                           /\ outstanding = 0 /\ rpc = "idle"))
    /\ [](response # NoResponse => response.status \in {200, 400, 500, 503})
    /\ [](response.status = 200
          => (Returned /\ SuccessAnswer(answer)
              /\ calls[Len(calls)].branch = "success"))
    /\ (posted # NoBody) ~> (response # NoResponse)

\* a request whose text is a number has been refused
C28_Witness ==
    /\ posted # NoBody
    /\ posted.parsable
    /\ posted.text.type = "number"
    /\ response.status = 400
    /\ calls = << >>

====
